---- MODULE Spec2Model ----
(***************************************************************************)
(* Achievement unlock ledger and share tracker of goodrunss-backend        *)
(* (src/api/integrations/achievements.py over the user_achievements table  *)
(* of src/models.py).                                                      *)
(*                                                                         *)
(* The Booking and Game tables are written by other parts of the           *)
(* application; a call of check_achievements sees them only through three  *)
(* COUNT queries, so the three counts are an input of each call.           *)
(* The clock is read at request granularity: every request is served at a  *)
(* later reading of utcnow() than the one before it.                       *)
(***************************************************************************)
EXTENDS Integers, Sequences, FiniteSets, TLC

VARIABLES
  users,    \* the ids of the rows of the users table
  ledger,   \* the committed rows of user_achievements, in insertion order
  now,      \* the reading of datetime.utcnow()
  resp,     \* the last request served, with its response
  repeat,   \* history: the last request repeats the one before it
  sess,     \* the database sessions of the requests in flight
  shares,   \* history: the (user_id, achievement_key) pairs shared with success
  share_calls,  \* history: the number of share calls that succeeded
  metrics,  \* the metrics dict handed to the scoring functions
  out,      \* what the scoring functions returned for it
  health_data_store,  \* healthkit.py: user_id -> the entry of the last sync
  hresp,    \* per user, the last healthkit response served
  synced,   \* history: per user, the metrics of the last sync request
  overwrote,  \* history: per user, a sync has replaced different metrics
  whoop_env,     \* whoop.py: which of WHOOP_CLIENT_ID / _SECRET are set
  oauth_states,  \* whoop.py: state -> the entry whoop_login stored
  callbacks,     \* the whoop_callback requests in flight
  login_status,  \* the status of the last whoop_login response
  passed,        \* history: per state, the callbacks that passed its check
  twilio_client,     \* twilio_sms.py: the Twilio client was configured
  two_factor_codes,  \* the rows of two_factor_codes, in insertion order
  sms_clock,         \* the reading of datetime.utcnow(), in minutes
  sms_resp,          \* the last /sms request served, with its response
  bookings,      \* payments.py: booking id -> its total_price
  transactions,  \* the rows of transactions, in insertion order
  presp          \* the last payment request served, with its locals

achVars ==
  <<users, ledger, now, resp, repeat, sess, shares, share_calls>>
scoreVars == <<metrics, out>>
healthVars == <<health_data_store, hresp, synced, overwrote>>
whoopVars == <<whoop_env, oauth_states, callbacks, login_status, passed>>
smsVars == <<twilio_client, two_factor_codes, sms_clock, sms_resp>>
payVars == <<bookings, transactions, presp>>
extVars == <<whoopVars, smsVars, payVars>>

vars == <<users, ledger, now, resp, repeat, sess, shares, share_calls,
          metrics, out,
          health_data_store, hresp, synced, overwrote, extVars>>

(* ------------------------------ bounds -------------------------------- *)
MaxTime == 3
MaxBookings == 7
MaxPerfect == 1
MaxCalls == 6
MaxClock == 6
MaxCodes == 2
MaxTransactions == 2

\* Thresholds of check_achievements and the bonus of share_achievement.
FIRST_BOOKING_MIN == 1
STREAK_MIN == 7
PERFECT_MIN == 1
SHARE_BONUS == 5
CODE_TTL == 5
PLATFORM_COMMISSION_PERCENT == 5

UserIds == {1, 2}
Platforms == {"instagram", "tiktok"}

(* ------------------------------ catalog ------------------------------- *)
None == <<>>
Some(x) == <<x>>

ACHIEVEMENTS ==
  [first_booking |->
     [name |-> "First Steps",
      description |-> "Booked your first training session",
      points |-> 50, icon |-> "trophy", reward |-> None,
      viral_text |-> "I just booked my first run via GIA!"],
   seven_day_streak |->
     [name |-> "Consistency King",
      description |-> "7-day training streak",
      points |-> 100, icon |-> "fire", reward |-> Some("Free Training Session"),
      viral_text |-> "My 7-day streak unlocked a free session!"],
   quick_court_find |->
     [name |-> "Court Master",
      description |-> "Found a court in under 30 seconds",
      points |-> 75, icon |-> "bolt", reward |-> None,
      viral_text |-> "GIA found me a court in 30 seconds!"],
   perfect_game |->
     [name |-> "Perfect Performance",
      description |-> "Achieved a perfect game score",
      points |-> 150, icon |-> "target", reward |-> None,
      viral_text |-> "Just had a perfect game!"],
   social_sharer |->
     [name |-> "Social Butterfly",
      description |-> "Shared 5 achievements",
      points |-> 25, icon |-> "phone", reward |-> None,
      viral_text |-> "Leveling up my game with GoodRunss!"]]

CatalogKeys == DOMAIN ACHIEVEMENTS

\* The achievement_key path parameter of share_achievement is any string.
ShareKeys == CatalogKeys \cup {"no_such_key"}

(* --------------------------- activity facts --------------------------- *)
\* The results of the three COUNT queries of one call: the recent bookings
\* are a sub-filter of the bookings of the user.
\* The counts are compared with the thresholds only, so the counts strictly
\* between the two booking thresholds are left out.
BookingCounts ==
  (0..FIRST_BOOKING_MIN) \cup (STREAK_MIN..MaxBookings)

Facts ==
  { f \in [bookings_count : BookingCounts,
           recent_bookings : BookingCounts,
           perfect_games : 0..MaxPerfect] :
      f.recent_bookings <= f.bookings_count }

NoFacts == [bookings_count |-> 0, recent_bookings |-> 0, perfect_games |-> 0]

\* The keys check_achievements evaluates, in the order of the code.
EvalKeys == <<"first_booking", "seven_day_streak", "perfect_game">>

\* Mutant: the streak rule written with > for >=.
QualifiesStrictStreak(key, facts) ==
  CASE key = "first_booking" -> facts.bookings_count >= FIRST_BOOKING_MIN
    [] key = "seven_day_streak" -> facts.recent_bookings > STREAK_MIN
    [] key = "perfect_game" -> facts.perfect_games >= PERFECT_MIN
    [] OTHER -> FALSE

Qualifies(key, facts) ==
  CASE key = "first_booking" -> facts.bookings_count >= FIRST_BOOKING_MIN
    [] key = "seven_day_streak" -> facts.recent_bookings >= STREAK_MIN
    [] key = "perfect_game" -> facts.perfect_games >= PERFECT_MIN
    [] OTHER -> FALSE

(* ------------------------------- ledger ------------------------------- *)
\* Mutant: the query without its user_id filter.
MatchingAnyUser(table, u, k) ==
  { i \in DOMAIN table : table[i].achievement_key = k }

\* db.query(UserAchievement).filter(user_id == u, achievement_key == k):
\* the positions of the matching rows of a table.
Matching(table, u, k) ==
  { i \in DOMAIN table :
      table[i].user_id = u /\ table[i].achievement_key = k }

\* Mutant: the perfect-game block records the social_sharer achievement.
NewRowSocialSharer(u, k, t) ==
  [id |-> 0, user_id |-> u,
   achievement_key |-> IF k = "perfect_game" THEN "social_sharer" ELSE k,
   unlocked_at |-> t,
   shared |-> FALSE, shared_platform |-> None, shared_at |-> None]

\* Mutant: the shared column defaulting to True.
NewRowShared(u, k, t) ==
  [id |-> 0, user_id |-> u, achievement_key |-> k, unlocked_at |-> t,
   shared |-> TRUE, shared_platform |-> None, shared_at |-> None]

\* UserAchievement(user_id, achievement_key, unlocked_at) as db.add() takes
\* it: the column defaults fill shared, shared_platform and shared_at, and
\* the id (0 here) is assigned when the row is written.
NewRow(u, k, t) ==
  [id |-> 0, user_id |-> u, achievement_key |-> k, unlocked_at |-> t,
   shared |-> FALSE, shared_platform |-> None, shared_at |-> None]

\* Mutant: a block without its existence query.
EvalStepNoExistenceCheck(table, u, facts, k, pending, t) ==
  IF Qualifies(k, facts)
    THEN Append(pending, NewRow(u, k, t))
    ELSE pending

\* One of the three blocks of check_achievements: the predicate, the
\* existence query against the committed rows, then db.add().
EvalStep(table, u, facts, k, pending, t) ==
  IF Qualifies(k, facts) /\ Matching(table, u, k) = {}
    THEN Append(pending, NewRow(u, k, t))
    ELSE pending

\* The three blocks in the order of the code, with no other writer between.
Evaluate(table, u, facts, t) ==
  LET p1 == EvalStep(table, u, facts, EvalKeys[1], <<>>, t)
      p2 == EvalStep(table, u, facts, EvalKeys[2], p1, t)
  IN  EvalStep(table, u, facts, EvalKeys[3], p2, t)

\* Mutant: a commit that writes the first pending row and loses the rest.
CommitFirstOnly(table, pending) ==
  IF pending = <<>> THEN table
  ELSE Append(table, [pending[1] EXCEPT !.id = Len(table) + 1])

\* Mutant: the commit left out, so that the pending rows are never written.
CommitDropped(table, pending) == table

\* db.commit(): the pending rows are written in the order they were added.
Commit(table, pending) ==
  table \o [i \in 1..Len(pending) |->
              [pending[i] EXCEPT !.id = Len(table) + i]]

\* new_achievements: the keys appended next to each db.add().
KeysOf(pending) == [i \in 1..Len(pending) |-> pending[i].achievement_key]

\* Mutant: an entry whose viral_text is the description and whose reward is
\* left out.
UnlockedWrongText(key) ==
  [key |-> key,
   name |-> ACHIEVEMENTS[key].name,
   description |-> ACHIEVEMENTS[key].description,
   points |-> ACHIEVEMENTS[key].points,
   icon |-> ACHIEVEMENTS[key].icon,
   viral_text |-> ACHIEVEMENTS[key].description,
   reward |-> None]

\* One entry of the response of check_achievements.
Unlocked(key) ==
  [key |-> key,
   name |-> ACHIEVEMENTS[key].name,
   description |-> ACHIEVEMENTS[key].description,
   points |-> ACHIEVEMENTS[key].points,
   icon |-> ACHIEVEMENTS[key].icon,
   viral_text |-> ACHIEVEMENTS[key].viral_text,
   reward |-> ACHIEVEMENTS[key].reward]

CheckBody(keys) ==
  [new_achievements |-> [i \in 1..Len(keys) |-> Unlocked(keys[i])],
   count |-> Len(keys)]

NotFoundBody(detail) == [detail |-> detail]

\* Mutant: the platform is not stored.
MarkSharedNoPlatform(row, platform, t) ==
  [row EXCEPT !.shared = TRUE, !.shared_at = Some(t)]

\* Mutant: sharing toggles the flag.
MarkSharedToggle(row, platform, t) ==
  [row EXCEPT !.shared = ~@,
              !.shared_platform = Some(platform),
              !.shared_at = Some(t)]

\* Mutant: the time of the share is written to unlocked_at.
MarkSharedRestamp(row, platform, t) ==
  [row EXCEPT !.shared = TRUE,
              !.shared_platform = Some(platform),
              !.unlocked_at = t]

\* The three assignments of share_achievement on the row it found.
MarkShared(row, platform, t) ==
  [row EXCEPT !.shared = TRUE,
              !.shared_platform = Some(platform),
              !.shared_at = Some(t)]

\* Mutant: a response without the viral text and the bonus.
ShareBodyNoBonus(key) == [success |-> TRUE]

ShareBody(key) ==
  IF key \in CatalogKeys
    THEN [success |-> TRUE,
          viral_text |-> ACHIEVEMENTS[key].viral_text,
          points_awarded |-> SHARE_BONUS]
    ELSE [success |-> TRUE]

(* --------------------------- scoring engine --------------------------- *)
\* src/api/integrations/healthkit.py.  A metrics dict as sync_healthkit_data
\* stores it always has its five keys; the value of an absent field is None.
\* sleep_hours and vo2_max are floats: they are kept in tenths, and the
\* thresholds of the code are written Tenths(8) for 8.
Tenths(x) == 10 * x

HeartRates == {-1, 0, 55, 60, 70, 75, 80, 100}
StepCounts == {-1, 0, 4999, 5000, 7000, 10000}
SleepTenths == {0, 59, 60, 70, 75, 80}
Vo2Tenths == {0, 299, 300, 400, 500}
CalorieCounts == {300}

Optional(S) == {None} \cup { Some(x) : x \in S }

Snapshots ==
  [heart_rate : Optional(HeartRates),
   steps : Optional(StepCounts),
   active_calories : Optional(CalorieCounts),
   vo2_max : Optional(Vo2Tenths),
   sleep_hours : Optional(SleepTenths)]

NoMetrics ==
  [heart_rate |-> None, steps |-> None, active_calories |-> None,
   vo2_max |-> None, sleep_hours |-> None]

\* metrics.get(key, default): the default is taken for a missing key only.
Get(d, key, default) ==
  IF key \in DOMAIN d THEN d[key] ELSE Some(default)

\* Python truth of an Optional number: None and 0 are false.
Truthy(v) == v # None /\ v[1] # 0

\* Python comparisons of an Optional number with a constant: "T", "F", or
\* "E" for the TypeError that comparing None raises.
GE(v, c) == IF v = None THEN "E" ELSE IF v[1] >= c THEN "T" ELSE "F"
LT(v, c) == IF v = None THEN "E" ELSE IF v[1] < c THEN "T" ELSE "F"

\* a and b: b is evaluated only when a is true.
AndThen(a, b) == IF a = "T" THEN b ELSE a

Min(a, b) == IF a <= b THEN a ELSE b

\* Mutant: an elevated heart rate is subtracted from the score.
HeartRateBonusPenalty(hr) ==
  IF hr < 60 THEN 15
  ELSE IF hr < 75 THEN 10
  ELSE IF hr < 100 THEN 5
  ELSE 0 - hr

HeartRateBonus(hr) ==
  IF hr < 60 THEN 15
  ELSE IF hr < 75 THEN 10
  ELSE IF hr < 100 THEN 5
  ELSE 0

\* Mutant: the top tier of steps worth 30.
StepsBonusDouble(steps) ==
  IF steps >= 10000 THEN 30
  ELSE IF steps >= 7000 THEN 10
  ELSE IF steps >= 5000 THEN 5
  ELSE 0

StepsBonus(steps) ==
  IF steps >= 10000 THEN 15
  ELSE IF steps >= 7000 THEN 10
  ELSE IF steps >= 5000 THEN 5
  ELSE 0

SleepBonus(sleep) ==
  IF sleep >= Tenths(8) THEN 10
  ELSE IF sleep >= Tenths(7) THEN 7
  ELSE IF sleep >= Tenths(6) THEN 3
  ELSE 0

Vo2Bonus(vo2) ==
  IF vo2 >= Tenths(50) THEN 10
  ELSE IF vo2 >= Tenths(40) THEN 7
  ELSE IF vo2 >= Tenths(30) THEN 3
  ELSE 0

\* calculate_health_score before its return: each block is guarded by the
\* truth of the field.
unclamped_score(m) ==
  LET hr == Get(m, "heart_rate", 0)
      st == Get(m, "steps", 0)
      sl == Get(m, "sleep_hours", 0)
      vo == Get(m, "vo2_max", 0)
  IN  50
      + (IF Truthy(hr) THEN HeartRateBonus(hr[1]) ELSE 0)
      + (IF Truthy(st) THEN StepsBonus(st[1]) ELSE 0)
      + (IF Truthy(sl) THEN SleepBonus(sl[1]) ELSE 0)
      + (IF Truthy(vo) THEN Vo2Bonus(vo[1]) ELSE 0)

\* return min(score, 100)
calculate_health_score(m) == Min(unclamped_score(m), 100)

\* Mutant: the two conditions of the first test joined by or.
recommended_intensity_or(m) ==
  LET sleep == Get(m, "sleep_hours", 0)
      hr == Get(m, "heart_rate", 70)
      first == IF GE(sleep, Tenths(8)) = "F" THEN LT(hr, 60)
               ELSE GE(sleep, Tenths(8))
      second == AndThen(GE(sleep, Tenths(7)), LT(hr, 75))
  IN  IF first = "E" THEN "TypeError"
      ELSE IF first = "T" THEN "High"
      ELSE IF second = "E" THEN "TypeError"
      ELSE IF second = "T" THEN "Moderate"
      ELSE "Light"

\* generate_training_plan: the intensity it recommends, or the TypeError
\* its comparisons raise on None.
recommended_intensity(m) ==
  LET sleep == Get(m, "sleep_hours", 0)
      hr == Get(m, "heart_rate", 70)
      first == AndThen(GE(sleep, Tenths(8)), LT(hr, 60))
      second == AndThen(GE(sleep, Tenths(7)), LT(hr, 75))
  IN  IF first = "E" THEN "TypeError"
      ELSE IF first = "T" THEN "High"
      ELSE IF second = "E" THEN "TypeError"
      ELSE IF second = "T" THEN "Moderate"
      ELSE "Light"

GT(v, c) == IF v = None THEN "E" ELSE IF v[1] > c THEN "T" ELSE "F"

\* generate_achievements: its four comparisons are made with whatever the
\* dict holds; TRUE when one of them raises TypeError.
generate_achievements_raises(m) ==
  \/ GE(Get(m, "steps", 0), 10000) = "E"
  \/ GE(Get(m, "sleep_hours", 0), Tenths(8)) = "E"
  \/ GE(Get(m, "vo2_max", 0), Tenths(50)) = "E"
  \/ LT(Get(m, "heart_rate", 100), 60) = "E"

\* generate_insights, likewise.
generate_insights_raises(m) ==
  \/ GT(Get(m, "steps", 0), 0) = "E"
  \/ GT(Get(m, "active_calories", 0), 0) = "E"
  \/ GT(Get(m, "sleep_hours", 0), 0) = "E"

\* The metrics of the sync requests of the store model: every subset of
\* heart_rate, steps, vo2_max and sleep_hours absent with top-tier values,
\* and the lower values and the absent calories with the other fields there.
SyncSnapshots ==
  { m \in [heart_rate : Optional({55, 80}),
           steps : Optional({10000}),
           active_calories : Optional({300}),
           vo2_max : Optional({500}),
           sleep_hours : Optional({60, 80})] :
      /\ (m.heart_rate = Some(80) \/ m.sleep_hours = Some(60))
           => (m.steps # None /\ m.vo2_max # None)
      /\ m.active_calories = None
           => (/\ m.heart_rate = Some(55) /\ m.sleep_hours = Some(80)
               /\ m.steps # None /\ m.vo2_max # None) }

\* Mutant: a sync that keeps the stored value of a field the request omits.
SyncStoreMerge(store, u, m) ==
  LET old == IF u \in DOMAIN store THEN store[u].metrics ELSE NoMetrics
      merged == [k \in DOMAIN m |-> IF m[k] = None THEN old[k] ELSE m[k]]
  IN  [v \in DOMAIN store \cup {u} |->
         IF v = u THEN [user_id |-> u, metrics |-> merged] ELSE store[v]]

\* Mutant: a sync that rebuilds the store with the one entry.
SyncStoreAlone(store, u, m) ==
  [v \in {u} |-> [user_id |-> u, metrics |-> m]]

\* health_data_store[user_id] = {...}: device_type, last_sync, workouts and
\* synced_at are stored beside the metrics and read by no score or plan.
SyncStore(store, u, m) ==
  [v \in DOMAIN store \cup {u} |->
     IF v = u THEN [user_id |-> u, metrics |-> m] ELSE store[v]]

\* data_points_received, without the workouts.
DataPoints(m) ==
  Cardinality({ k \in DOMAIN m : Truthy(m[k]) })

HResponse(op, status, score, intensity, points) ==
  [op |-> op, status |-> status, health_score |-> score,
   intensity |-> intensity, data_points |-> points]

NoHResponse == HResponse("none", 0, None, "", 0)

NoOut == [health_score |-> None, intensity |-> None]

(* ------------------------------- whoop -------------------------------- *)
\* src/api/integrations/whoop.py.  The states whoop_login issues are values
\* of secrets.token_urlsafe(32): each login draws one that no earlier login
\* drew.  A callback may present any of them, issued or not, or a forged one.
Tokens == {"t1", "t2"}
PresentedStates == Tokens \cup {"forged"}

\* Two whoop_callback requests served by one event loop: each runs without
\* interruption up to its first await, the token exchange.
Callbacks == {"c1", "c2"}

WhoopEnvs == [client_id : BOOLEAN, client_secret : BOOLEAN]
WhoopConfigured == [client_id |-> TRUE, client_secret |-> TRUE]

IdleCallback == [pc |-> "idle", state |-> "", status |-> 0, detail |-> ""]

\* Mutant: the used flag left as it was.
MarkUsedNever(states, t) == states

\* oauth_states[state]["used"] = True
MarkUsed(states, t) == [states EXCEPT ![t].used = TRUE]

\* oauth_states[state] = {"created_at": ..., "used": False}; created_at is
\* read nowhere.
Issue(states, t) ==
  [x \in DOMAIN states \cup {t} |->
     IF x = t THEN [used |-> FALSE] ELSE states[x]]

WhoopStart ==
  /\ oauth_states = <<>>
  /\ callbacks = [c \in Callbacks |-> IdleCallback]
  /\ login_status = 0
  /\ passed = [t \in PresentedStates |-> 0]

(* -------------------------------- 2FA --------------------------------- *)
\* src/api/integrations/twilio_sms.py over the two_factor_codes table.
\* Codes are random.choices(string.digits, k=6): two rows may hold the
\* same code.  User 3 has no row in users.  Codes are sent to one phone
\* number and verified with that number or with another.
SmsUsers == {1, 3}
Phones == {"+15550001", "+15550002"}
SendPhones == {"+15550001"}
Codes == {"123456", "654321"}
SendOutcomes == {"sent", "TwilioException"}

\* TwoFactorCode(user_id, phone_number, code, expires_at, created_at); used
\* and verified_at take their column defaults.
NewCode(u, phone, code, t) ==
  [id |-> 0, user_id |-> u, phone_number |-> phone, code |-> code,
   expires_at |-> t + CODE_TTL, used |-> FALSE, verified_at |-> None,
   created_at |-> t]

\* Mutant: the query of verify_2fa_code without its filter on used.
ValidCodesIgnoreUsed(table, u, phone, code, t) ==
  { i \in DOMAIN table :
      /\ table[i].user_id = u
      /\ table[i].phone_number = phone
      /\ table[i].code = code
      /\ table[i].expires_at > t }

\* The rows the query of verify_2fa_code selects.
ValidCodes(table, u, phone, code, t) ==
  { i \in DOMAIN table :
      /\ table[i].user_id = u
      /\ table[i].phone_number = phone
      /\ table[i].code = code
      /\ table[i].expires_at > t
      /\ table[i].used = FALSE }

\* two_factor_code.used = True; two_factor_code.verified_at = utcnow()
MarkVerified(row, t) == [row EXCEPT !.used = TRUE, !.verified_at = Some(t)]

SmsResponse(op, u, phone, code, status, row) ==
  [op |-> op, user_id |-> u, phone_number |-> phone, code |-> code,
   status |-> status, row |-> row]

NoSmsResponse == SmsResponse("none", 0, "", "", 0, 0)

SmsStart ==
  /\ two_factor_codes = <<>>
  /\ sms_clock = 0
  /\ sms_resp = NoSmsResponse

(* ------------------------------ payments ------------------------------ *)
\* src/api/integrations/payments.py.  A total_price is a float of dollars;
\* it is named here by its hundredths (1999 for 19.99), and the two
\* conversions to cents give what Python's float arithmetic gives for it.
Prices == {-1000, 0, 1, 29, 58, 100, 140, 1999, 5000, 10010}
BookingIds == {1, 2}
MissingBooking == 3
StripeOutcomes == {"succeeded", "StripeError", "Exception"}

\* int(x) for the quotient n / d: truncation toward zero.
Trunc(n, d) == IF n >= 0 THEN n \div d ELSE 0 - ((0 - n) \div d)

\* int(total_amount * 100): 0.29 * 100, 0.58 * 100 and 19.99 * 100 are
\* floats just below 29, 58 and 1999; the other products are exact.
AmountCents(price) ==
  IF price \in {29, 58, 1999} THEN price - 1 ELSE price

\* Mutant: a fee of 30 cents at least.
FeeCentsWithMinimum(price) ==
  IF Trunc(price * PLATFORM_COMMISSION_PERCENT, 100) < 30
    THEN 30
    ELSE Trunc(price * PLATFORM_COMMISSION_PERCENT, 100)

\* int(total_amount * PLATFORM_COMMISSION_RATE * 100): 1.4 * 0.05 * 100 is
\* a float just below 7; for the other prices the float and the exact
\* product have the same integer part.
FeeCents(price) ==
  IF price = 140 THEN 6
  ELSE Trunc(price * PLATFORM_COMMISSION_PERCENT, 100)

\* The float cents / 100, kept as the quotient.
Dollars(cents) == <<cents, 100>>

\* stripe.PaymentIntent.create: Stripe takes a positive integer amount and
\* may refuse any payment.
StripeAccepts(amount, outcome) == amount >= 1 /\ outcome = "succeeded"

PayResponse(booking_id, status, amount, fee, trainer) ==
  [booking_id |-> booking_id, status |-> status, amount_cents |-> amount,
   platform_fee |-> fee, trainer_amount |-> trainer]

NoPayResponse == PayResponse(0, 0, None, None, None)

PayStart ==
  /\ bookings = [b \in BookingIds |-> 100]
  /\ transactions = <<>>
  /\ presp = NoPayResponse

\* The other integrations before their first request.
ExtStart ==
  /\ whoop_env = WhoopConfigured
  /\ WhoopStart
  /\ twilio_client = TRUE
  /\ SmsStart
  /\ PayStart

(* ------------------------------ requests ------------------------------ *)
Response(op, u, k, p, f, status, body) ==
  [op |-> op, user_id |-> u, key |-> k, platform |-> p, facts |-> f,
   status |-> status, body |-> body]

NoResponse == Response("none", 0, "", "", NoFacts, 0, NotFoundBody(""))

SameRequest(r, op, u, k, p, f) ==
  /\ r.op = op /\ r.user_id = u /\ r.key = k
  /\ r.platform = p /\ r.facts = f

\* Mutant: the user lookup left out.
UserExistsAlways(u) == TRUE

\* user = db.query(User).filter(User.id == user_id).first(); if not user
UserExists(u) == u \in users

Sessions == {"s1", "s2"}

Idle ==
  [pc |-> "idle", user_id |-> 0, facts |-> NoFacts, idx |-> 0,
   pending |-> <<>>, status |-> 0]

Init ==
  /\ users \in {{1}, {1, 2}}
  /\ ledger = <<>>
  /\ now = 0
  /\ resp = NoResponse
  /\ repeat = FALSE
  /\ sess = [s \in Sessions |-> Idle]
  /\ shares = {}
  /\ share_calls = 0
  /\ metrics = NoMetrics
  /\ out = NoOut
  /\ health_data_store = <<>>
  /\ hresp = [u \in UserIds |-> NoHResponse]
  /\ synced = [u \in UserIds |-> None]
  /\ overwrote = [u \in UserIds |-> FALSE]
  /\ ExtStart

\* POST /achievements/check/{user_id}, served without interruption.
CheckRequest(u, facts) ==
  /\ now' = now + 1
  /\ IF ~UserExists(u)
       THEN /\ ledger' = ledger
            /\ resp' = Response("check", u, "", "", facts, 404,
                                NotFoundBody("User not found"))
       ELSE LET pending == Evaluate(ledger, u, facts, now') IN
            /\ ledger' = Commit(ledger, pending)
            /\ resp' = Response("check", u, "", "", facts, 200,
                                CheckBody(KeysOf(pending)))
  /\ repeat' = SameRequest(resp, "check", u, "", "", facts)
  /\ UNCHANGED <<users, sess, shares, share_calls,
               scoreVars, healthVars, extVars>>

\* POST /achievements/share/{user_id}/{achievement_key}?platform=...
\* .first() has no ORDER BY: any matching row may be the one returned.
ShareRequest(u, k, p) ==
  /\ now' = now + 1
  /\ IF Matching(ledger, u, k) = {}
       THEN /\ ledger' = ledger
            /\ resp' = Response("share", u, k, p, NoFacts, 404,
                                NotFoundBody("Achievement not found"))
            /\ shares' = shares
            /\ share_calls' = share_calls
       ELSE \E i \in Matching(ledger, u, k) :
            /\ ledger' = [ledger EXCEPT ![i] = MarkShared(@, p, now')]
            /\ resp' = Response("share", u, k, p, NoFacts, 200, ShareBody(k))
            /\ shares' = shares \cup {<<u, k>>}
            /\ share_calls' = share_calls + 1
  /\ repeat' = SameRequest(resp, "share", u, k, p, NoFacts)
  /\ UNCHANGED <<users, sess, scoreVars, healthVars, extVars>>

\* Mutant: the two entries in the other order.
LeaderboardBodySwapped ==
  [leaderboard |->
     << [user_id |-> 2, username |-> "CourtMaster", total_points |-> 380,
         achievements_count |-> 6, rank |-> 2],
        [user_id |-> 1, username |-> "BallPlayer123", total_points |-> 450,
         achievements_count |-> 8, rank |-> 1] >>]

\* The requests of a run of at most MaxTime requests.
CheckAchievements(u, facts) == now < MaxTime /\ CheckRequest(u, facts)

ShareAchievement(u, k, p) == now < MaxTime /\ ShareRequest(u, k, p)

\* The body get_achievement_leaderboard returns: a literal of the code.
LeaderboardBody ==
  [leaderboard |->
     << [user_id |-> 1, username |-> "BallPlayer123", total_points |-> 450,
         achievements_count |-> 8, rank |-> 1],
        [user_id |-> 2, username |-> "CourtMaster", total_points |-> 380,
         achievements_count |-> 6, rank |-> 2] >>]

\* GET /achievements/leaderboard
GetAchievementLeaderboard ==
  /\ now < MaxTime
  /\ now' = now + 1
  /\ resp' = Response("leaderboard", 0, "", "", NoFacts, 200, LeaderboardBody)
  /\ repeat' = SameRequest(resp, "leaderboard", 0, "", "", NoFacts)
  /\ UNCHANGED <<users, ledger, sess, shares, share_calls,
               scoreVars, healthVars, extVars>>

Next ==
  \/ \E u \in UserIds, f \in Facts : CheckAchievements(u, f)
  \/ \E u \in UserIds, k \in ShareKeys, p \in Platforms :
       ShareAchievement(u, k, p)
  \/ GetAchievementLeaderboard

Spec == Init /\ [][Next]_vars

(* ----------------- check_achievements, statement by statement --------- *)
\* Each request has its own Session (get_db); the statements of two
\* requests served by different workers on the same database interleave.
\* A query sees the rows committed so far; a session's pending rows are
\* written by its commit only (autoflush=False).

\* A request arrives.
Begin(s, u, facts) ==
  /\ sess[s].pc = "idle"
  /\ now < MaxTime
  /\ now' = now + 1
  /\ sess' = [sess EXCEPT ![s] =
                [pc |-> "user", user_id |-> u, facts |-> facts, idx |-> 1,
                 pending |-> <<>>, status |-> 0]]
  /\ UNCHANGED <<users, ledger, resp, repeat, shares, share_calls,
               scoreVars, healthVars, extVars>>

\* The user lookup and the 404.
LoadUser(s) ==
  /\ sess[s].pc = "user"
  /\ sess' = [sess EXCEPT ![s] =
                IF UserExists(sess[s].user_id)
                  THEN [@ EXCEPT !.pc = "eval"]
                  ELSE [@ EXCEPT !.pc = "done", !.status = 404]]
  /\ UNCHANGED <<users, ledger, now, resp, repeat, shares,
               share_calls, scoreVars, healthVars, extVars>>

\* The next of the three blocks.
EvalNext(s) ==
  /\ sess[s].pc = "eval"
  /\ sess' = [sess EXCEPT ![s] =
                [@ EXCEPT
                   !.pending = EvalStep(ledger, sess[s].user_id, sess[s].facts,
                                        EvalKeys[sess[s].idx], @, now),
                   !.idx = @ + 1,
                   !.pc = IF sess[s].idx = Len(EvalKeys)
                            THEN "commit" ELSE "eval"]]
  /\ UNCHANGED <<users, ledger, now, resp, repeat, shares,
               share_calls, scoreVars, healthVars, extVars>>

\* db.commit() and the response.
CommitSession(s) ==
  /\ sess[s].pc = "commit"
  /\ ledger' = Commit(ledger, sess[s].pending)
  /\ sess' = [sess EXCEPT ![s] = [@ EXCEPT !.pc = "done", !.status = 200]]
  /\ UNCHANGED <<users, now, resp, repeat, shares, share_calls,
               scoreVars, healthVars, extVars>>

\* The request fails in a statement before its commit (a database error):
\* get_db closes the session, which discards the rows it holds.
Abort(s) ==
  /\ sess[s].pc \in {"user", "eval", "commit"}
  /\ sess' = [sess EXCEPT ![s] =
                [@ EXCEPT !.pc = "done", !.status = 500, !.pending = <<>>]]
  /\ UNCHANGED <<users, ledger, now, resp, repeat, shares,
               share_calls, scoreVars, healthVars, extVars>>

NextConc ==
  \/ \E s \in Sessions, u \in UserIds, f \in Facts : Begin(s, u, f)
  \/ \E s \in Sessions : LoadUser(s)
  \/ \E s \in Sessions : EvalNext(s)
  \/ \E s \in Sessions : CommitSession(s)
  \/ \E s \in Sessions : Abort(s)

SpecConc == Init /\ [][NextConc]_vars

(* ------------------- one user's long run of requests ------------------- *)
\* A single user makes up to MaxCalls check and share requests, enough to
\* share every achievement the user holds more than once.  The counts a
\* check sees are either all zero or all at their thresholds.
SharerFacts ==
  { f \in Facts :
      \/ f = NoFacts
      \/ /\ f.bookings_count = STREAK_MIN /\ f.recent_bookings = STREAK_MIN
         /\ f.perfect_games = PERFECT_MIN }

InitSharer ==
  /\ Init
  /\ users = {1}

SharerCheck(f) ==
  /\ now < MaxCalls
  /\ \E u \in users : CheckRequest(u, f)

SharerShare(k, p) ==
  /\ now < MaxCalls
  /\ \E u \in users : ShareRequest(u, k, p)

NextSharer ==
  \/ \E f \in SharerFacts : SharerCheck(f)
  \/ \E k \in ShareKeys, p \in Platforms : SharerShare(k, p)

SpecSharer == InitSharer /\ [][NextSharer]_vars


(* ----------------------- the scoring functions ------------------------ *)
\* calculate_health_score and generate_training_plan applied to a metrics
\* dict, and applied again after one field of it has changed.
InitScore ==
  /\ users = {1, 2}
  /\ ledger = <<>>
  /\ now = 0
  /\ resp = NoResponse
  /\ repeat = FALSE
  /\ sess = [s \in Sessions |-> Idle]
  /\ shares = {}
  /\ share_calls = 0
  /\ metrics \in Snapshots
  /\ out = NoOut
  /\ health_data_store = <<>>
  /\ hresp = [u \in UserIds |-> NoHResponse]
  /\ synced = [u \in UserIds |-> None]
  /\ overwrote = [u \in UserIds |-> FALSE]
  /\ ExtStart

CalcScore ==
  /\ out.health_score = None
  /\ out' = [out EXCEPT !.health_score = Some(calculate_health_score(metrics))]
  /\ UNCHANGED <<achVars, metrics, healthVars, extVars>>

CalcPlan ==
  /\ out.intensity = None
  /\ out' = [out EXCEPT !.intensity = Some(recommended_intensity(metrics))]
  /\ UNCHANGED <<achVars, metrics, healthVars, extVars>>

\* The next dict differs in one field; it is scored at once.
Remeasure(field, v) ==
  /\ out.health_score # None
  /\ v # metrics[field]
  /\ metrics' = [metrics EXCEPT ![field] = v]
  /\ out' = [health_score |-> Some(calculate_health_score(metrics')),
             intensity |-> None]
  /\ UNCHANGED <<achVars, healthVars, extVars>>

NextScore ==
  \/ CalcScore
  \/ CalcPlan
  \/ \E field \in DOMAIN NoMetrics :
       \E v \in { m[field] : m \in Snapshots } : Remeasure(field, v)

SpecScore == InitScore /\ [][NextScore]_vars

(* ------------------------- the health data store ---------------------- *)
InitHealth ==
  /\ users = {1, 2}
  /\ ledger = <<>>
  /\ now = 0
  /\ resp = NoResponse
  /\ repeat = FALSE
  /\ sess = [s \in Sessions |-> Idle]
  /\ shares = {}
  /\ share_calls = 0
  /\ metrics = NoMetrics
  /\ out = NoOut
  /\ health_data_store = <<>>
  /\ hresp = [u \in UserIds |-> NoHResponse]
  /\ synced = [u \in UserIds |-> None]
  /\ overwrote = [u \in UserIds |-> FALSE]
  /\ ExtStart

\* POST /healthkit/sync/{user_id}
SyncHealthkitData(u, m) ==
  /\ health_data_store' = SyncStore(health_data_store, u, m)
  /\ hresp' = [hresp EXCEPT ![u] =
                 HResponse("sync", 200, None, "", DataPoints(m))]
  /\ synced' = [synced EXCEPT ![u] = Some(m)]
  /\ overwrote' = [overwrote EXCEPT
                     ![u] = @ \/ (synced[u] # None /\ synced[u] # Some(m))]
  /\ UNCHANGED <<achVars, scoreVars, extVars>>

\* GET /healthkit/data/{user_id}
GetHealthkitData(u) ==
  /\ hresp' = [hresp EXCEPT ![u] =
                 IF u \notin DOMAIN health_data_store
                   THEN HResponse("data", 404, None, "", 0)
                   ELSE HResponse("data", 200, None, "", 0)]
  /\ UNCHANGED <<achVars, scoreVars, health_data_store, synced, overwrote,
               extVars>>

\* GET /healthkit/recommendations/{user_id}: the training plan is made
\* before the score; an exception it raises is answered with a 500.
GetHealthRecommendations(u) ==
  /\ hresp' = [hresp EXCEPT ![u] =
                 IF u \notin DOMAIN health_data_store
                   THEN HResponse("recommendations", 200, None, "", 0)
                   ELSE LET m == health_data_store[u].metrics
                            intensity == recommended_intensity(m)
                        IN  IF intensity = "TypeError"
                              THEN HResponse("recommendations", 500, None,
                                             "", 0)
                              ELSE HResponse("recommendations", 200,
                                             Some(calculate_health_score(m)),
                                             intensity, 0)]
  /\ UNCHANGED <<achVars, scoreVars, health_data_store, synced, overwrote,
               extVars>>

\* GET /healthkit/stats/{user_id}
GetHealthStats(u) ==
  /\ hresp' = [hresp EXCEPT ![u] =
                 IF u \notin DOMAIN health_data_store
                   THEN HResponse("stats", 404, None, "", 0)
                   ELSE LET m == health_data_store[u].metrics IN
                        IF \/ generate_achievements_raises(m)
                           \/ generate_insights_raises(m)
                          THEN HResponse("stats", 500, None, "", 0)
                          ELSE HResponse("stats", 200,
                                         Some(calculate_health_score(m)),
                                         "", 0)]
  /\ UNCHANGED <<achVars, scoreVars, health_data_store, synced, overwrote,
               extVars>>

NextHealth ==
  \/ \E u \in UserIds, m \in SyncSnapshots : SyncHealthkitData(u, m)
  \/ \E u \in UserIds : GetHealthkitData(u)
  \/ \E u \in UserIds : GetHealthRecommendations(u)
  \/ \E u \in UserIds : GetHealthStats(u)

SpecHealth == InitHealth /\ [][NextHealth]_vars

(* --------------------------- the whoop flow --------------------------- *)
\* The achievement, scoring and health state before any request.
AchStart ==
  /\ users = {1, 2}
  /\ ledger = <<>>
  /\ now = 0
  /\ resp = NoResponse
  /\ repeat = FALSE
  /\ sess = [s \in Sessions |-> Idle]
  /\ shares = {}
  /\ share_calls = 0

ScoreStart == metrics = NoMetrics /\ out = NoOut

HealthStart ==
  /\ health_data_store = <<>>
  /\ hresp = [u \in UserIds |-> NoHResponse]
  /\ synced = [u \in UserIds |-> None]
  /\ overwrote = [u \in UserIds |-> FALSE]

InitWhoop ==
  /\ AchStart /\ ScoreStart /\ HealthStart
  /\ whoop_env \in WhoopEnvs
  /\ WhoopStart
  /\ twilio_client = TRUE /\ SmsStart
  /\ PayStart

\* GET /whoop/login
WhoopLogin ==
  /\ IF ~whoop_env.client_id
       THEN /\ login_status' = 400
            /\ oauth_states' = oauth_states
       ELSE \E t \in Tokens \ DOMAIN oauth_states :
              /\ oauth_states' = Issue(oauth_states, t)
              /\ login_status' = 200
  /\ UNCHANGED <<achVars, scoreVars, healthVars, smsVars, payVars,
                 whoop_env,
                 callbacks, passed>>

\* POST /whoop/callback up to its first await: the credentials, the two
\* tests of the state and the assignment of the used flag.
WhoopCallback(c, state) ==
  /\ callbacks[c].pc \in {"idle", "done"}
  /\ IF ~(whoop_env.client_id /\ whoop_env.client_secret)
       THEN /\ callbacks' = [callbacks EXCEPT ![c] =
                               [pc |-> "done", state |-> state, status |-> 400,
                                detail |-> "Whoop credentials not configured"]]
            /\ UNCHANGED <<oauth_states, passed>>
     ELSE IF state \notin DOMAIN oauth_states
       THEN /\ callbacks' = [callbacks EXCEPT ![c] =
                               [pc |-> "done", state |-> state, status |-> 400,
                                detail |-> "Invalid state parameter"]]
            /\ UNCHANGED <<oauth_states, passed>>
     ELSE IF oauth_states[state].used
       THEN /\ callbacks' = [callbacks EXCEPT ![c] =
                               [pc |-> "done", state |-> state, status |-> 400,
                                detail |-> "State already used"]]
            /\ UNCHANGED <<oauth_states, passed>>
     ELSE /\ oauth_states' = MarkUsed(oauth_states, state)
          /\ passed' = [passed EXCEPT ![state] = @ + 1]
          /\ callbacks' = [callbacks EXCEPT ![c] =
                             [pc |-> "exchange", state |-> state, status |-> 0,
                              detail |-> ""]]
  /\ UNCHANGED <<achVars, scoreVars, healthVars, smsVars, payVars,
                 whoop_env,
                 login_status>>

\* The token exchange returns.  A refusal raises an HTTPException(400) inside
\* the try block, which `except Exception` turns into a 500, as it does a
\* request error.
ExchangeOutcomes == {"tokens", "refused", "request_error"}

WhoopExchange(c, outcome) ==
  /\ callbacks[c].pc = "exchange"
  /\ callbacks' = [callbacks EXCEPT ![c] =
                     [@ EXCEPT
                        !.pc = "done",
                        !.status = IF outcome = "tokens" THEN 200 ELSE 500,
                        !.detail = IF outcome = "tokens"
                                     THEN "Whoop OAuth successful!"
                                   ELSE IF outcome = "refused"
                                     THEN "OAuth error"
                                   ELSE "Request error"]]
  /\ UNCHANGED <<achVars, scoreVars, healthVars, smsVars, payVars,
                 whoop_env,
                 oauth_states, login_status, passed>>

NextWhoop ==
  \/ WhoopLogin
  \/ \E c \in Callbacks, state \in PresentedStates : WhoopCallback(c, state)
  \/ \E c \in Callbacks, outcome \in ExchangeOutcomes :
       WhoopExchange(c, outcome)

SpecWhoop == InitWhoop /\ [][NextWhoop]_vars

(* ---------------------------- the 2FA codes --------------------------- *)
InitSms ==
  /\ AchStart /\ ScoreStart /\ HealthStart
  /\ whoop_env = WhoopConfigured /\ WhoopStart
  /\ twilio_client \in BOOLEAN
  /\ SmsStart
  /\ PayStart

\* POST /sms/send-2fa/{user_id}: the row is committed before the SMS is
\* sent, so it stays when Twilio refuses the message.
Send2faCode(u, phone, code, outcome) ==
  /\ Len(two_factor_codes) < MaxCodes
  /\ IF ~twilio_client
       THEN /\ sms_resp' = SmsResponse("send", u, phone, "", 500, 0)
            /\ two_factor_codes' = two_factor_codes
     ELSE IF ~UserExists(u)
       THEN /\ sms_resp' = SmsResponse("send", u, phone, "", 404, 0)
            /\ two_factor_codes' = two_factor_codes
     ELSE LET id == Len(two_factor_codes) + 1 IN
          /\ two_factor_codes' =
               Append(two_factor_codes,
                      [NewCode(u, phone, code, sms_clock) EXCEPT !.id = id])
          /\ sms_resp' = SmsResponse("send", u, phone, code,
                                     IF outcome = "sent" THEN 200 ELSE 400,
                                     id)
  /\ UNCHANGED <<achVars, scoreVars, healthVars, whoopVars, payVars,
                 twilio_client,
                 sms_clock>>

\* POST /sms/verify-2fa/{user_id}; .first() has no ORDER BY.
Verify2faCode(u, phone, code) ==
  /\ LET valid == ValidCodes(two_factor_codes, u, phone, code, sms_clock) IN
     IF valid = {}
       THEN /\ sms_resp' = SmsResponse("verify", u, phone, code, 400, 0)
            /\ two_factor_codes' = two_factor_codes
       ELSE \E i \in valid :
              /\ two_factor_codes' =
                   [two_factor_codes EXCEPT ![i] = MarkVerified(@, sms_clock)]
              /\ sms_resp' = SmsResponse("verify", u, phone, code, 200, i)
  /\ UNCHANGED <<achVars, scoreVars, healthVars, whoopVars, payVars,
                 twilio_client,
                 sms_clock>>

\* Time passes between requests: the lifetime of a code, or most of it.
Tick(d) ==
  /\ sms_clock + d <= MaxClock
  /\ sms_clock' = sms_clock + d
  /\ UNCHANGED <<achVars, scoreVars, healthVars, whoopVars, payVars,
                 twilio_client,
                 two_factor_codes, sms_resp>>

NextSms ==
  \/ \E u \in SmsUsers, phone \in SendPhones, code \in Codes,
        outcome \in SendOutcomes : Send2faCode(u, phone, code, outcome)
  \/ \E u \in SmsUsers, phone \in Phones, code \in Codes :
       Verify2faCode(u, phone, code)
  \/ \E d \in {CODE_TTL - 2, CODE_TTL} : Tick(d)

SpecSms == InitSms /\ [][NextSms]_vars

(* ------------------------- the booking payments ----------------------- *)
InitPay ==
  /\ AchStart /\ ScoreStart /\ HealthStart
  /\ whoop_env = WhoopConfigured /\ WhoopStart
  /\ twilio_client = TRUE /\ SmsStart
  /\ bookings \in [BookingIds -> Prices]
  /\ transactions = <<>>
  /\ presp = NoPayResponse

\* POST /payments/process-booking-payment.  The 404 for a missing booking
\* is raised inside the try block and leaves as a 500; a StripeError leaves
\* as a 400; the row is added and committed after the intent is created.
ProcessBookingPayment(booking_id, outcome) ==
  /\ Len(transactions) < MaxTransactions
  /\ IF booking_id \notin DOMAIN bookings
       THEN /\ presp' = PayResponse(booking_id, 500, None, None, None)
            /\ transactions' = transactions
       ELSE LET total_amount == bookings[booking_id]
                platform_fee == FeeCents(total_amount)
                amount == AmountCents(total_amount)
                trainer_amount == amount - platform_fee
            IN  IF StripeAccepts(amount, outcome)
                  THEN /\ transactions' =
                            Append(transactions,
                                   [id |-> Len(transactions) + 1,
                                    booking_id |-> booking_id,
                                    amount |-> total_amount,
                                    platform_fee |-> Dollars(platform_fee),
                                    trainer_amount |-> Dollars(trainer_amount),
                                    status |-> "completed"])
                       /\ presp' = PayResponse(booking_id, 200, Some(amount),
                                               Some(platform_fee),
                                               Some(trainer_amount))
                  ELSE /\ transactions' = transactions
                       /\ presp' =
                            PayResponse(booking_id,
                                        IF outcome = "Exception"
                                          THEN 500 ELSE 400,
                                        Some(amount), Some(platform_fee),
                                        Some(trainer_amount))
  /\ UNCHANGED <<achVars, scoreVars, healthVars, whoopVars, smsVars,
                 bookings>>

NextPay ==
  \E booking_id \in BookingIds \cup {MissingBooking},
     outcome \in StripeOutcomes : ProcessBookingPayment(booking_id, outcome)

SpecPay == InitPay /\ [][NextPay]_vars

(* ============================== claims ================================ *)
\* The rows of the ledger for a (user, achievement) pair, as the claims
\* count them.
Records(u, k) ==
  { i \in DOMAIN ledger :
      ledger[i].user_id = u /\ ledger[i].achievement_key = k }

\* The unlock rules as the specification states them.
Unlockable(k, f) ==
  \/ k = "first_booking" /\ f.bookings_count >= 1
  \/ k = "seven_day_streak" /\ f.recent_bookings >= 7
  \/ k = "perfect_game" /\ f.perfect_games >= 1

\* This step serves one request of the given operation.
Served(op) == now' # now /\ resp'.op = op

\* The keys the response of this step's check_achievements lists.
ReturnedKeys ==
  { resp'.body.new_achievements[i].key :
      i \in DOMAIN resp'.body.new_achievements }

\* C1: under sequential check_achievements and share_achievement calls the
\* ledger never holds two rows with the same (user_id, achievement_key).
C1_AtMostOneRecordPerPair ==
  \A i, j \in DOMAIN ledger :
    (/\ ledger[i].user_id = ledger[j].user_id
     /\ ledger[i].achievement_key = ledger[j].achievement_key) => i = j

\* A user who holds a record was evaluated again with facts that still
\* satisfy its predicate, and another record exists besides.
C1_Witness ==
  /\ resp.op = "check" /\ resp.status = 200
  /\ Len(ledger) >= 2
  /\ \E k \in CatalogKeys :
       Unlockable(k, resp.facts) /\ Records(resp.user_id, k) # {}

\* C2: when two concurrent check_achievements calls for the same user have
\* both returned, every key both calls' facts qualify for has exactly one
\* row, whatever the interleaving of their queries and commits.
C2_ExactlyOneAfterConcurrentChecks ==
  \A s, t \in Sessions :
    (/\ s # t
     /\ sess[s].pc = "done" /\ sess[s].status = 200
     /\ sess[t].pc = "done" /\ sess[t].status = 200
     /\ sess[s].user_id = sess[t].user_id)
    => \A k \in CatalogKeys :
         (Unlockable(k, sess[s].facts) /\ Unlockable(k, sess[t].facts))
         => Cardinality(Records(sess[s].user_id, k)) = 1

\* C3: a check_achievements call returns every key the facts qualify for
\* and the user had no record of (the first call unlocks); a call that
\* repeats the previous call's user and facts returns an empty list with
\* count 0, writes nothing, and leaves exactly one record for every key the
\* facts qualify for.
C3_Idempotent ==
  [][(Served("check") /\ resp'.status = 200) =>
       LET u == resp'.user_id
           f == resp'.facts
       IN  /\ \A k \in CatalogKeys :
                (Unlockable(k, f) /\ Records(u, k) = {}) => k \in ReturnedKeys
           /\ repeat' =>
                /\ resp'.body.new_achievements = <<>>
                /\ resp'.body.count = 0
                /\ ledger' = ledger
                /\ \A k \in CatalogKeys :
                     Unlockable(k, f) => Cardinality(Records(u, k)) = 1
     ]_vars

\* The second of two identical calls has returned nothing new for a key the
\* facts qualify for, of which one record exists.
C3_Witness ==
  /\ repeat /\ resp.op = "check" /\ resp.status = 200
  /\ resp.body.count = 0
  /\ \E k \in CatalogKeys :
       /\ Unlockable(k, resp.facts)
       /\ Cardinality(Records(resp.user_id, k)) = 1

\* C4: for an existing user check_achievements succeeds, and the keys it
\* returns and the rows it appends are exactly the keys whose rule the facts
\* satisfy and of which the user had no record; the rows already there are
\* untouched.
C4_ExactlyTheQualifyingKeys ==
  [][Served("check") =>
       LET u == resp'.user_id
           f == resp'.facts
           expected == { k \in CatalogKeys :
                           Unlockable(k, f) /\ Records(u, k) = {} }
           added == (Len(ledger) + 1)..Len(ledger')
       IN  /\ u \in users => resp'.status = 200
           /\ resp'.status = 200 =>
                /\ ReturnedKeys = expected
                /\ Len(resp'.body.new_achievements) = Cardinality(expected)
                /\ Len(ledger') = Len(ledger) + Cardinality(expected)
                /\ SubSeq(ledger', 1, Len(ledger)) = ledger
                /\ { <<ledger'[i].user_id, ledger'[i].achievement_key>> :
                       i \in added } = { <<u, k>> : k \in expected }
     ]_vars

\* A call unlocked the streak for a user while withholding first_booking,
\* which the facts satisfy too but the user already held.
C4_Witness ==
  /\ resp.op = "check" /\ resp.status = 200
  /\ resp.body.count = 1
  /\ resp.body.new_achievements[1].key = "seven_day_streak"
  /\ resp.facts.perfect_games = 0

\* C5: every entry of the response carries the catalog's name, description,
\* points, icon, viral_text and reward of its key, count is the number of
\* entries, and a user without records whose facts are 1 booking, 0 recent
\* bookings and 0 perfect games gets the single entry first_booking with 50
\* points.
C5_EntriesCarryCatalog ==
  [][(Served("check") /\ resp'.status = 200) =>
       LET entries == resp'.body.new_achievements
           u == resp'.user_id
       IN  /\ resp'.body.count = Len(entries)
           /\ \A i \in DOMAIN entries :
                LET e == entries[i]
                    d == ACHIEVEMENTS[e.key]
                IN  /\ e.name = d.name
                    /\ e.description = d.description
                    /\ e.points = d.points
                    /\ e.icon = d.icon
                    /\ e.viral_text = d.viral_text
                    /\ e.reward = d.reward
           /\ (/\ resp'.facts = [bookings_count |-> 1, recent_bookings |-> 0,
                                 perfect_games |-> 0]
               /\ \A i \in DOMAIN ledger : ledger[i].user_id # u)
              => /\ resp'.body.count = 1
                 /\ entries[1].key = "first_booking"
                 /\ entries[1].points = 50
                 /\ entries[1].viral_text =
                      "I just booked my first run via GIA!"
     ]_vars

\* The end-to-end case has been served.
C5_Witness ==
  /\ resp.op = "check" /\ resp.status = 200
  /\ resp.facts = [bookings_count |-> 1, recent_bookings |-> 0,
                   perfect_games |-> 0]
  /\ resp.body.count = 1
  /\ resp.body.new_achievements[1].key = "first_booking"
  /\ Len(ledger) = 1

\* C6: share_achievement for a pair without a record answers 404 and leaves
\* the ledger as it was.
C6_ShareMissingIsNotFound ==
  [][(Served("share") /\ Records(resp'.user_id, resp'.key) = {}) =>
       /\ resp'.status = 404
       /\ ledger' = ledger
     ]_vars

\* A share was refused for a pair without a record while the ledger held
\* a record of the same key for another user.
C6_Witness ==
  /\ resp.op = "share" /\ resp.status = 404
  /\ Records(resp.user_id, resp.key) = {}
  /\ \E i \in DOMAIN ledger : ledger[i].achievement_key = resp.key

\* C7: share_achievement for a pair with a record succeeds, leaves that
\* record shared with the given platform, and returns the catalog's
\* viral_text of the key with points_awarded 5.
C7_ShareMarksAndReturns ==
  [][(Served("share") /\ Records(resp'.user_id, resp'.key) # {}) =>
       /\ resp'.status = 200
       /\ \A i \in Records(resp'.user_id, resp'.key) :
            /\ ledger'[i].shared = TRUE
            /\ ledger'[i].shared_platform = <<resp'.platform>>
       /\ resp'.body.viral_text = ACHIEVEMENTS[resp'.key].viral_text
       /\ resp'.body.points_awarded = 5
     ]_vars

\* A record created by an earlier call has been shared on tiktok.
C7_Witness ==
  /\ resp.op = "share" /\ resp.status = 200
  /\ resp.platform = "tiktok"
  /\ \E i \in Records(resp.user_id, resp.key) :
       /\ ledger[i].shared
       /\ ledger[i].shared_platform = <<"tiktok">>
       /\ ledger[i].shared_at = <<now>>
       /\ ledger[i].unlocked_at < now

\* C8: check_achievements for a user_id without a users row answers 404 and
\* leaves the ledger as it was, whatever the booking and game counts.
C8_UnknownUserIsNotFound ==
  [][(Served("check") /\ resp'.user_id \notin users) =>
       /\ resp'.status = 404
       /\ ledger' = ledger
     ]_vars

\* An unknown user whose counts satisfy every rule was refused.
C8_Witness ==
  /\ resp.op = "check" /\ resp.status = 404
  /\ resp.user_id \notin users
  /\ \A k \in {"first_booking", "seven_day_streak", "perfect_game"} :
       Unlockable(k, resp.facts)
  /\ Records(resp.user_id, "first_booking") = {}

\* C9: a share_achievement call that repeats the previous, successful call's
\* user, key and platform succeeds and leaves the ledger with the same rows,
\* equal in every column but shared_at.
C9_ShareIdempotent ==
  [][(Served("share") /\ repeat' /\ resp.status = 200) =>
       /\ resp'.status = 200
       /\ Len(ledger') = Len(ledger)
       /\ \A i \in DOMAIN ledger :
            [ledger'[i] EXCEPT !.shared_at = <<>>]
              = [ledger[i] EXCEPT !.shared_at = <<>>]
     ]_vars

\* The second of two identical shares has been served.
C9_Witness ==
  /\ repeat /\ resp.op = "share" /\ resp.status = 200
  /\ \E i \in Records(resp.user_id, resp.key) :
       ledger[i].shared /\ ledger[i].shared_at = <<now>>

\* C10: no step removes a row or changes the id, user_id, achievement_key
\* or unlocked_at of a row.
C10_AppendOnly ==
  [][/\ Len(ledger') >= Len(ledger)
     /\ \A i \in DOMAIN ledger :
          /\ ledger'[i].id = ledger[i].id
          /\ ledger'[i].user_id = ledger[i].user_id
          /\ ledger'[i].achievement_key = ledger[i].achievement_key
          /\ ledger'[i].unlocked_at = ledger[i].unlocked_at
    ]_vars

\* A user was evaluated with facts that no longer satisfy the rule of a
\* record the user holds from an earlier call.
C10_Witness ==
  /\ resp.op = "check" /\ resp.status = 200
  /\ \E i \in DOMAIN ledger :
       /\ ledger[i].user_id = resp.user_id
       /\ ~Unlockable(ledger[i].achievement_key, resp.facts)
       /\ ledger[i].unlocked_at < now

\* C11: a row is shared exactly when a share_achievement call for its
\* (user_id, achievement_key) has succeeded; check_achievements appends rows
\* that are unshared and without platform and leaves the shared columns of
\* the rows already there alone; no step takes a row from shared to unshared.
C11_SharedIffShareSucceeded ==
  /\ [](\A i \in DOMAIN ledger :
          ledger[i].shared
            <=> <<ledger[i].user_id, ledger[i].achievement_key>> \in shares)
  /\ [][/\ Served("check") =>
             /\ \A i \in DOMAIN ledger :
                  /\ ledger'[i].shared = ledger[i].shared
                  /\ ledger'[i].shared_platform = ledger[i].shared_platform
                  /\ ledger'[i].shared_at = ledger[i].shared_at
             /\ \A i \in DOMAIN ledger' \ DOMAIN ledger :
                  /\ ledger'[i].shared = FALSE
                  /\ ledger'[i].shared_platform = <<>>
                  /\ ledger'[i].shared_at = <<>>
        /\ \A i \in DOMAIN ledger : ledger[i].shared => ledger'[i].shared
       ]_vars

\* A check_achievements call has added an unshared row for a user who holds
\* a row shared before.
C11_Witness ==
  /\ resp.op = "check" /\ resp.status = 200 /\ resp.body.count >= 1
  /\ \E i, j \in DOMAIN ledger :
       /\ ledger[i].user_id = resp.user_id /\ ledger[i].shared
       /\ <<resp.user_id, ledger[i].achievement_key>> \in shares
       /\ ledger[j].user_id = resp.user_id /\ ~ledger[j].shared
       /\ ledger[j].unlocked_at = now

\* The rows of a user in a table, in order, without their ids.
Own(table, u) ==
  LET rows == SelectSeq(table, LAMBDA r : r.user_id = u)
  IN  [i \in DOMAIN rows |-> [rows[i] EXCEPT !.id = 0]]

\* C12: a check_achievements or share_achievement call for a user leaves
\* every row of every other user as it was and adds rows of that user only,
\* and what it does to the user's rows and the status it returns are what the
\* same call does on a ledger holding that user's rows alone.
C12_CrossUserIndependence ==
  [][(Served("check") \/ Served("share")) =>
       LET a == resp'.user_id
           own == Own(ledger, a)
       IN  /\ \A i \in DOMAIN ledger :
                ledger[i].user_id # a => ledger'[i] = ledger[i]
           /\ \A i \in DOMAIN ledger' \ DOMAIN ledger :
                ledger'[i].user_id = a
           /\ (Served("check") /\ resp'.status = 200) =>
                Own(ledger', a)
                  = Own(Commit(own, Evaluate(own, a, resp'.facts, now')), a)
           /\ Served("share") =>
                IF Matching(own, a, resp'.key) = {}
                  THEN resp'.status = 404 /\ Own(ledger', a) = own
                  ELSE /\ resp'.status = 200
                       /\ \E j \in Matching(own, a, resp'.key) :
                            Own(ledger', a)
                              = [own EXCEPT
                                   ![j] = MarkShared(@, resp'.platform, now')]
     ]_vars

\* A user has shared an achievement that the other user holds too, unshared.
C12_Witness ==
  /\ resp.op = "share" /\ resp.status = 200
  /\ \E i \in DOMAIN ledger :
       /\ ledger[i].user_id # resp.user_id
       /\ ledger[i].achievement_key = resp.key
       /\ ~ledger[i].shared

\* C13: the rows created by one check_achievements request reach the ledger
\* together: the ledger changes only in the commit step of one request, which
\* appends every row that request holds, in order, and changes no row already
\* there; a request that ends with an error before its commit (404 or 500)
\* changes nothing.
C13_PersistedTogether ==
  [][/\ ledger' # ledger =>
          \E s \in Sessions :
            /\ sess[s].pc = "commit"
            /\ sess'[s].pc = "done" /\ sess'[s].status = 200
            /\ Len(ledger') = Len(ledger) + Len(sess[s].pending)
            /\ \A i \in DOMAIN ledger : ledger'[i] = ledger[i]
            /\ \A i \in DOMAIN sess[s].pending :
                 ledger'[Len(ledger) + i]
                   = [sess[s].pending[i] EXCEPT !.id = Len(ledger) + i]
     /\ \A s \in Sessions :
          (sess[s].pc # "done" /\ sess'[s].pc = "done"
             /\ sess'[s].status # 200) => ledger' = ledger
     /\ \A s \in Sessions :
          (sess[s].pc = "commit" /\ sess'[s].pc = "done"
             /\ sess'[s].status = 200)
            => Len(ledger') = Len(ledger) + Len(sess[s].pending)
    ]_vars

\* One request has committed two rows at once while the other, which held a
\* row of its own, failed before its commit: the ledger holds the two rows.
C13_Witness ==
  \E s, t \in Sessions :
    /\ sess[s].pc = "done" /\ sess[s].status = 200
    /\ Len(sess[s].pending) = 2
    /\ sess[t].pc = "done" /\ sess[t].status = 500
    /\ sess[t].facts.bookings_count >= FIRST_BOOKING_MIN
    /\ Len(ledger) = 2

\* The bonus table of the scoring contract: 0 for an absent field, and for a
\* present one the tier its value falls in.
TableBonus(v, kind) ==
  IF v = None THEN 0
  ELSE LET x == v[1]
       IN  CASE kind = "heart_rate" ->
                  IF x < 60 THEN 15 ELSE IF x < 75 THEN 10
                  ELSE IF x < 100 THEN 5 ELSE 0
             [] kind = "steps" ->
                  IF x >= 10000 THEN 15 ELSE IF x >= 7000 THEN 10
                  ELSE IF x >= 5000 THEN 5 ELSE 0
             [] kind = "sleep_hours" ->
                  IF x >= 80 THEN 10 ELSE IF x >= 70 THEN 7
                  ELSE IF x >= 60 THEN 3 ELSE 0
             [] kind = "vo2_max" ->
                  IF x >= 500 THEN 10 ELSE IF x >= 400 THEN 7
                  ELSE IF x >= 300 THEN 3 ELSE 0

TableScore(m) ==
  LET sum == 50 + TableBonus(m.heart_rate, "heart_rate")
                + TableBonus(m.steps, "steps")
                + TableBonus(m.sleep_hours, "sleep_hours")
                + TableBonus(m.vo2_max, "vo2_max")
  IN  IF sum > 100 THEN 100 ELSE sum

\* C14: the score calculate_health_score returns for a snapshot is
\* min(100, 50 + the four table bonuses), a present field always taking the
\* bonus of its tier (a present heart rate below 60 takes 15).
C14_ScoreFollowsTable ==
  out.health_score # None => out.health_score[1] = TableScore(metrics)

\* C15: the score returned for any snapshot, zero and negative values
\* included, is an integer from 0 to 100.
C15_ScoreInRange ==
  out.health_score # None => out.health_score[1] \in 0..100

\* A snapshot with a negative heart rate and zero steps has been scored.
C15_Witness ==
  /\ out.health_score # None
  /\ metrics.heart_rate = Some(-1)
  /\ metrics.steps = Some(0)
  /\ metrics.sleep_hours = None

\* C19: with the other fields fixed and the field present before and after,
\* a higher steps, sleep_hours or vo2_max never gives a lower score and a
\* higher heart_rate never gives a higher one.
C19_Monotone ==
  [][\A field \in {"heart_rate", "steps", "sleep_hours", "vo2_max"} :
       (/\ out.health_score # None /\ out'.health_score # None
        /\ metrics[field] # None /\ metrics'[field] # None
        /\ metrics'[field][1] > metrics[field][1]
        /\ \A g \in DOMAIN metrics : g # field => metrics'[g] = metrics[g])
         => IF field = "heart_rate"
              THEN out'.health_score[1] <= out.health_score[1]
              ELSE out'.health_score[1] >= out.health_score[1]
    ]_vars

\* The classification rule of the contract, its third class named by low.
Classify(sleep, hr, low) ==
  IF sleep >= 80 /\ hr < 60 THEN "High"
  ELSE IF sleep >= 70 /\ hr < 75 THEN "Moderate"
  ELSE low

BothPresent(m) == m.sleep_hours # None /\ m.heart_rate # None

OrDefault(v, default) == IF v = None THEN default ELSE v[1]

\* C17: once a user's snapshot is stored, with any of its fields absent, the
\* recommendations and stats operations answer without an error, and the
\* intensity recommended is the class of the snapshot with an absent
\* sleep_hours taken as 0 and an absent heart_rate as 70.
C17_ScoringIsTotal ==
  \A u \in UserIds :
    (synced[u] # None /\ hresp[u].op \in {"recommendations", "stats"}) =>
      /\ hresp[u].status = 200
      /\ hresp[u].op = "recommendations" =>
           LET sleep == OrDefault(synced[u][1].sleep_hours, 0)
               hr == OrDefault(synced[u][1].heart_rate, 70)
           IN  hresp[u].intensity
                 \in {Classify(sleep, hr, "Low"), Classify(sleep, hr, "Light")}

\* The last response of a user is a report made from the stored snapshot.
Reported(u) ==
  hresp[u].op \in {"recommendations", "stats"} /\ hresp[u].status = 200

\* C18: the health_score and the recommended intensity reported for a user
\* depend on the last snapshot synced for that user and on nothing else:
\* two users whose last synced snapshots are equal are reported the same
\* score, and the same intensity, whatever was synced before for either.
C18_HistoryFree ==
  \A u, v \in UserIds :
    (/\ synced[u] # None /\ synced[u] = synced[v]
     /\ Reported(u) /\ Reported(v)) =>
      /\ hresp[u].health_score = hresp[v].health_score
      /\ hresp[u].op = hresp[v].op => hresp[u].intensity = hresp[v].intensity

\* Two users are reported on the same last snapshot, one of them after a
\* different snapshot of theirs was replaced, the other after a single sync.
C18_Witness ==
  \E u, v \in UserIds :
    /\ synced[u] # None /\ synced[u] = synced[v]
    /\ overwrote[u] /\ ~overwrote[v]
    /\ hresp[u].op = "recommendations" /\ hresp[u].status = 200
    /\ hresp[v].op = "recommendations" /\ hresp[v].status = 200
    /\ hresp[u].health_score = hresp[v].health_score
    /\ hresp[u].intensity = hresp[v].intensity

\* The catalog points of the first n rows of the ledger that are a user's.
RECURSIVE PointsOf(_, _)
PointsOf(u, n) ==
  IF n = 0 THEN 0
  ELSE PointsOf(u, n - 1)
         + (IF ledger[n].user_id = u
              THEN ACHIEVEMENTS[ledger[n].achievement_key].points ELSE 0)

\* C20: every entry of the leaderboard returned carries, for its user, the
\* sum of the catalog points of the user's records as total_points and the
\* number of those records as achievements_count.
C20_LeaderboardFromLedger ==
  (resp.op = "leaderboard" /\ resp.status = 200) =>
    \A i \in DOMAIN resp.body.leaderboard :
      LET e == resp.body.leaderboard[i]
      IN  /\ e.total_points = PointsOf(e.user_id, Len(ledger))
          /\ e.achievements_count
               = Cardinality({ j \in DOMAIN ledger :
                                 ledger[j].user_id = e.user_id })

\* C21: the leaderboard returned is ordered by total_points, highest first,
\* and the entry at position i has rank i; its two entries, of 450 and of 380
\* points, come in that order.
C21_LeaderboardOrdered ==
  (resp.op = "leaderboard" /\ resp.status = 200) =>
    LET board == resp.body.leaderboard
    IN  /\ \A i \in DOMAIN board : board[i].rank = i
        /\ \A i, j \in DOMAIN board :
             i < j => board[i].total_points >= board[j].total_points
        /\ Len(board) = 2
        /\ board[1].total_points = 450 /\ board[2].total_points = 380

\* The leaderboard has been served while the ledger holds records.
C21_Witness ==
  /\ resp.op = "leaderboard" /\ resp.status = 200
  /\ Len(resp.body.leaderboard) = 2
  /\ ledger # <<>>

\* C22: every successful share_achievement call returns points_awarded = 5,
\* also when the record it marks was shared already.
C22_BonusOnEveryShare ==
  [][(Served("share") /\ resp'.status = 200) =>
       /\ "points_awarded" \in DOMAIN resp'.body
       /\ resp'.body.points_awarded = 5
    ]_vars

\* The same share made twice in a row: the second call, on a record that the
\* first had marked shared, has been awarded the bonus too.
C22_Witness ==
  /\ resp.op = "share" /\ resp.status = 200 /\ repeat
  /\ <<resp.user_id, resp.key>> \in shares
  /\ resp.body.points_awarded = 5

\* C23: every record's achievement_key is first_booking, seven_day_streak or
\* perfect_game, however many check and share calls were made (five
\* successful shares included): no record is ever created for
\* quick_court_find or social_sharer; so every record's key is in the catalog
\* and every successful share returns the viral_text of its achievement.
C23_OnlyEvaluatedKeys ==
  /\ \A i \in DOMAIN ledger :
       /\ ledger[i].achievement_key
            \in {"first_booking", "seven_day_streak", "perfect_game"}
       /\ ledger[i].achievement_key \in DOMAIN ACHIEVEMENTS
  /\ (resp.op = "share" /\ resp.status = 200) =>
       /\ "viral_text" \in DOMAIN resp.body
       /\ resp.body.viral_text = ACHIEVEMENTS[resp.key].viral_text

\* The user holds the three achievements, all of them shared, and has made
\* five successful shares.
C23_Witness ==
  /\ share_calls >= 5
  /\ Len(ledger) = 3
  /\ \A i \in DOMAIN ledger : ledger[i].shared

\* C26: a state is good for one callback.  A callback presenting a state
\* that whoop_login never issued is rejected with a 400; of the callbacks
\* presenting an issued state at most one passes the state check, also when
\* a second one arrives while the first awaits the token exchange; a state
\* is marked used as soon as a callback passes, before the exchange, and
\* stays used whatever the exchange returns.
C26_StateSingleUse ==
  /\ [](/\ \A t \in PresentedStates :
             /\ passed[t] <= 1
             /\ t \notin DOMAIN oauth_states => passed[t] = 0
             /\ passed[t] = 1 => oauth_states[t].used
        /\ \A c \in Callbacks :
             /\ (callbacks[c].pc = "done"
                   /\ callbacks[c].state \notin DOMAIN oauth_states)
                  => callbacks[c].status = 400
             /\ callbacks[c].pc = "exchange"
                  => /\ callbacks[c].state \in DOMAIN oauth_states
                     /\ oauth_states[callbacks[c].state].used
        /\ \A c, d \in Callbacks :
             (c # d /\ callbacks[c].state = callbacks[d].state)
               => ~(/\ callbacks[c].pc # "idle" /\ callbacks[c].status # 400
                    /\ callbacks[d].pc # "idle" /\ callbacks[d].status # 400))
  /\ [][\A t \in DOMAIN oauth_states :
          oauth_states[t].used
            => (t \in DOMAIN oauth_states' /\ oauth_states'[t].used)]_vars

\* A second callback with the same state was rejected while the first was
\* awaiting the token exchange, and the exchange of the first then failed:
\* the state stays used.
C26_Witness ==
  \E c, d \in Callbacks :
    /\ c # d /\ callbacks[c].state = callbacks[d].state
    /\ callbacks[c].pc = "done" /\ callbacks[c].status = 500
    /\ callbacks[d].pc = "done" /\ callbacks[d].detail = "State already used"
    /\ oauth_states[callbacks[c].state].used

\* C24: for every snapshot the sum 50 + bonuses, before min(score, 100) is
\* applied, lies between 50 and 100, so the score returned is that sum and
\* lies in 50..100.
C24_ClampNeverActs ==
  out.health_score # None =>
    /\ unclamped_score(metrics) \in 50..100
    /\ out.health_score[1] = unclamped_score(metrics)
    /\ out.health_score[1] \in 50..100

\* The snapshot with every field in its top tier has been scored 100.
C24_Witness ==
  /\ metrics.heart_rate = Some(55) /\ metrics.steps = Some(10000)
  /\ metrics.sleep_hours = Some(80) /\ metrics.vo2_max = Some(500)
  /\ out.health_score = Some(100)

\* C25: the store holds for each user the snapshot of that user's last sync
\* and nothing of an earlier one (a field absent in the last sync is absent
\* in the store); a step changes the entry of the user that synced only;
\* an entry once there stays; get_healthkit_data answers 404 for a user
\* never synced and 200 for a user synced before.
C25_StoreFrame ==
  /\ [](\A u \in UserIds :
          /\ u \in DOMAIN health_data_store <=> synced[u] # None
          /\ u \in DOMAIN health_data_store =>
               /\ health_data_store[u].user_id = u
               /\ health_data_store[u].metrics = synced[u][1]
          /\ hresp[u].op = "data" =>
               hresp[u].status = IF synced[u] = None THEN 404 ELSE 200)
  /\ [][\A u \in UserIds :
          /\ u \in DOMAIN health_data_store
               => u \in DOMAIN health_data_store'
          /\ (synced'[u] = synced[u] /\ u \in DOMAIN health_data_store)
               => health_data_store'[u] = health_data_store[u]
          /\ (synced'[u] = synced[u] /\ u \notin DOMAIN health_data_store)
               => u \notin DOMAIN health_data_store'
          /\ \A v \in UserIds :
               (u # v /\ synced'[u] # synced[u]) => synced'[v] = synced[v]
       ]_vars

\* A user's second sync, without steps, has replaced a first one; the other
\* user's entry, synced with steps, is found.
C25_Witness ==
  \E u, v \in UserIds :
    /\ u # v
    /\ overwrote[u] /\ u \in DOMAIN health_data_store
    /\ health_data_store[u].metrics.steps = None
    /\ v \in DOMAIN health_data_store
    /\ health_data_store[v].metrics.steps # None
    /\ hresp[v].op = "data" /\ hresp[v].status = 200

\* A verify_2fa_code request has been answered in this step.
VerifyServed ==
  /\ sms_resp'.op = "verify"
  /\ sms_resp' # sms_resp \/ two_factor_codes' # two_factor_codes

\* C27: verify_2fa_code succeeds exactly when a stored code matches the
\* user, the phone number and the code, has not expired and is unused; the
\* success marks that one code used and verified now and changes no other;
\* a failure changes no stored code; a used code stays used, so of the
\* verifications of one stored code, made one after another, at most one
\* succeeds.
C27_CodeSingleUse ==
  [][/\ VerifyServed =>
          LET r == sms_resp'
              good == { i \in DOMAIN two_factor_codes :
                          /\ two_factor_codes[i].user_id = r.user_id
                          /\ two_factor_codes[i].phone_number = r.phone_number
                          /\ two_factor_codes[i].code = r.code
                          /\ two_factor_codes[i].expires_at > sms_clock
                          /\ ~two_factor_codes[i].used }
          IN  /\ r.status = 200 <=> good # {}
              /\ r.status \in {200, 400}
              /\ r.status = 200 =>
                   /\ r.row \in good
                   /\ two_factor_codes'[r.row].used
                   /\ two_factor_codes'[r.row].verified_at = <<sms_clock>>
                   /\ \A i \in DOMAIN two_factor_codes :
                        i # r.row => two_factor_codes'[i] = two_factor_codes[i]
                   /\ [two_factor_codes'[r.row] EXCEPT
                         !.used = FALSE, !.verified_at = <<>>]
                        = two_factor_codes[r.row]
              /\ r.status = 400 => two_factor_codes' = two_factor_codes
     /\ \A i \in DOMAIN two_factor_codes :
          two_factor_codes[i].used =>
            /\ i \in DOMAIN two_factor_codes'
            /\ two_factor_codes'[i].used
            /\ two_factor_codes'[i].verified_at
                 = two_factor_codes[i].verified_at
    ]_vars

\* A code was verified and the same verification, made again before the
\* code expired, has failed.
C27_Witness ==
  /\ sms_resp.op = "verify" /\ sms_resp.status = 400
  /\ \E i \in DOMAIN two_factor_codes :
       /\ two_factor_codes[i].user_id = sms_resp.user_id
       /\ two_factor_codes[i].phone_number = sms_resp.phone_number
       /\ two_factor_codes[i].code = sms_resp.code
       /\ two_factor_codes[i].used
       /\ two_factor_codes[i].expires_at > sms_clock

====
